---- MODULE Spec2Model ----
(***************************************************************************)
(* Model of sli_recorder.recorder.Recorder: the supervision of the capture *)
(* process (SystemAudioDump, "dump") and the encoder process ("ffmpeg").   *)
(*                                                                         *)
(* The primary thread runs start() and wait() step by step (pc); the       *)
(* signal handler and stop_gracefully() run to completion between two      *)
(* steps of the primary thread; the two child processes, the output file   *)
(* and the external actor that may delete it are the environment.          *)
(*                                                                         *)
(* A process has its real state (alive, code) and the state the Recorder   *)
(* has observed (returncode), which only poll(), wait() and the poll made  *)
(* by send_signal()/terminate()/kill() update.                             *)
(***************************************************************************)
EXTENDS Integers, FiniteSets, Sequences, TLC

\* ------------------------------------------------------------------ bounds
MaxExitCode == 2        \* exit codes range over 0..MaxExitCode
MaxStops == 2           \* stop_gracefully() invocations (calls and signals)
MaxCalls == 2           \* wait() calls of the caller
MaxHandleErrors == 1    \* OSErrors raised by terminate()/kill() of a handle

\* Popen.returncode of a process that was not yet observed exited
None == -1

ExitCodes == 0..MaxExitCode
Procs == {"ffmpeg", "dump"}

\* the pipes given to the children with stdout=PIPE or stderr=PIPE that stay
\* with the Recorder: stderr of the capture process, stdout and stderr of
\* the encoder (stdout of the capture process is handed to the encoder)
Captured == {"dump_err", "ff_out", "ff_err"}
Writer(f) == IF f = "dump_err" THEN "dump" ELSE "ffmpeg"

VARIABLES
    pc,             \* position of the primary thread
    cur,            \* _cleanup_processes: the process of the loop iteration
    ctx,            \* _cleanup_processes: called from "start" or "wait"
    pending,        \* the exception that is being handled
    proc,           \* the two process handles and the processes behind them
    stop_requested, \* self._stop_requested
    start_time,     \* self._start_time is set
    status_thread,  \* self._status_thread was started
    stdout_closed,  \* the Recorder's reference to dump's stdout is closed
    verbose,        \* config.verbose
    file,           \* the output file: "absent", "empty" (0 bytes), "data"
    startResult,    \* how start() ended
    waitOutcome,    \* how the latest wait() ended
    waitCode,       \* the value the latest wait() returned
    ffmpeg_code,    \* wait(): local ffmpeg_code
    message,        \* wait(): the final status message of the latest call
    seenExists,     \* the file was there at line 104 of the latest wait()
    seenSize,       \* wait(): the file wait() reported as saved
    dumpPollAlive,  \* the post-launch poll of dump returned None
    ffPollAlive,    \* the post-launch poll of ffmpeg returned None
    waitTouched,    \* the latest wait() performed an operation on a handle
    sigInWait,      \* a signal arrived while wait() blocked on a live encoder
    stops,          \* stop_gracefully() invocations so far
    calls,          \* wait() calls so far
    errs,           \* handle errors so far
    r_pc,           \* position of the status thread
    r_elapsed,      \* _status_reporter: local elapsed of the latest sample
    r_logged,       \* _status_reporter: the latest iteration logged a line
    cli_pc,         \* position of main() of the command line
    dry_run,        \* the --dry-run option
    executed,       \* the binaries main() has run so far
    constructed,    \* main() has constructed the Recorder
    exit_status,    \* the status the program ended with
    pipe,           \* bytes held by each captured pipe that nobody reads
    blocked,        \* the children that are blocked in a write to a full pipe
    capture         \* what the capture binary does when it is run

vars == <<pc, cur, ctx, pending, proc, stop_requested, start_time,
          status_thread, stdout_closed, verbose, file, startResult,
          waitOutcome, waitCode, ffmpeg_code, message, seenExists, seenSize,
          dumpPollAlive, ffPollAlive, waitTouched, sigInWait, stops, calls,
          errs, r_pc, r_elapsed, r_logged, cli_pc, dry_run, executed,
          constructed, exit_status, pipe, blocked, capture>>

config == <<verbose>>
budget == <<stops, calls, errs>>
reporter == <<r_pc, r_elapsed, r_logged>>
cli == <<cli_pc, dry_run, executed, constructed, exit_status, capture>>
pipes == <<pipe, blocked>>
\* what no method of the Recorder writes
outside == <<reporter, cli, pipes>>
startLocals == <<dumpPollAlive, ffPollAlive, start_time, status_thread,
                 stdout_closed, startResult>>
waitLocals == <<waitOutcome, waitCode, ffmpeg_code, message, seenExists,
                seenSize, waitTouched, sigInWait>>
cleanupLocals == <<cur, ctx, pending>>

NoProcess == [handle |-> FALSE, alive |-> FALSE, code |-> None,
              returncode |-> None, ints |-> 0, terms |-> 0, kills |-> 0]

\* Popen(...) returned: the handle exists and the process runs
Spawned == [NoProcess EXCEPT !.handle = TRUE, !.alive = TRUE]

\* Recorder.__init__, lines 32-41
RecorderInit ==
    /\ pc = "idle"
    /\ cur = "none"
    /\ ctx = "none"
    /\ pending = "none"
    /\ proc = [p \in Procs |-> NoProcess]
    /\ stop_requested = FALSE
    /\ start_time = FALSE
    /\ status_thread = FALSE
    /\ stdout_closed = FALSE
    /\ verbose \in BOOLEAN
    /\ file \in {"absent", "data"}
    /\ startResult = "none"
    /\ waitOutcome = "none"
    /\ waitCode = None
    /\ ffmpeg_code = None
    /\ message = "none"
    /\ seenExists = "unchecked"
    /\ seenSize = "none"
    /\ dumpPollAlive = FALSE
    /\ ffPollAlive = FALSE
    /\ waitTouched = FALSE
    /\ sigInWait = FALSE

\* the status thread does not exist before start() creates it
ReporterInit ==
    /\ r_pc = "r_off"
    /\ r_elapsed = None
    /\ r_logged = FALSE

\* the Recorder used as a library: constructed by a caller other than main()
LibraryInit ==
    /\ cli_pc = "library"
    /\ capture = "streams"
    /\ dry_run = FALSE
    /\ executed = {}
    /\ constructed = TRUE
    /\ exit_status = None

\* the pipes are created by the two Popen calls; nothing is in them
PipesInit ==
    /\ pipe = [f \in Captured |-> 0]
    /\ blocked = [p \in Procs |-> FALSE]

Init ==
    /\ RecorderInit
    /\ ReporterInit
    /\ LibraryInit
    /\ PipesInit
    /\ stops = 0
    /\ calls = 0
    /\ errs = 0

\* ------------------------------------------------------- process handles

\* Popen.poll(): the returncode after the call
Polled(r) == IF r.alive THEN r ELSE [r EXCEPT !.returncode = r.code]

\* Popen.send_signal(sig) (terminate and kill go through it): polls first
\* and signals only a process that has not exited; kind is the counter of
\* the signal, "ints", "terms" or "kills"
Signalled(r, kind) ==
    IF r.alive THEN [r EXCEPT ![kind] = @ + 1] ELSE Polled(r)

\* `process and process.returncode is None`
NeedsReap(p) == proc[p].handle /\ proc[p].returncode = None

\* the post-launch check left out: the poll is never taken as a failure
PollFailedNever(p) == FALSE

\* `self._dump_process.poll() is not None` / `self._ffmpeg_process.poll() ...`
PollFailed(p) == Polled(proc[p]).returncode # None

\* terminate() or kill() of a handle raises (os.kill fails)
HandleError == errs < MaxHandleErrors /\ errs' = errs + 1

\* entering `except Exception as e: self._cleanup_processes()`
EnterCleanup(c, e) ==
    /\ pc' = "c_check"
    /\ cur' = "ffmpeg"
    /\ ctx' = c
    /\ pending' = e

\* ---------------------------------------------------------------- start()

\* start(), lines 49-56: the caller calls start() once
Start ==
    /\ pc = "idle"
    /\ startResult = "none"
    /\ pc' = "s_dump_popen"
    /\ UNCHANGED <<cleanupLocals, proc, stop_requested, file, startLocals,
                   waitLocals, config, outside, budget>>

\* _start_dump_process: Popen(dump_cmd, stdout=PIPE, stderr=PIPE)
DumpPopen ==
    /\ pc = "s_dump_popen"
    /\ \/ /\ proc' = [proc EXCEPT !["dump"] = Spawned]
          /\ pc' = "s_dump_poll"
          /\ UNCHANGED cleanupLocals
       \/ /\ EnterCleanup("start", "DumpSpawn")
          /\ UNCHANGED proc
    /\ UNCHANGED <<stop_requested, file, startLocals, waitLocals, config, outside,
                   budget>>

\* _start_dump_process: sleep(0.1), poll(), raise if the process has exited
DumpPoll ==
    /\ pc = "s_dump_poll"
    /\ proc' = [proc EXCEPT !["dump"] = Polled(@)]
    /\ dumpPollAlive' = (Polled(proc["dump"]).returncode = None)
    /\ IF PollFailed("dump")
       THEN EnterCleanup("start", "DumpExited")
       ELSE pc' = "s_ff_popen" /\ UNCHANGED cleanupLocals
    /\ UNCHANGED <<stop_requested, file, ffPollAlive, start_time,
                   status_thread, stdout_closed, startResult, waitLocals,
                   config, outside, budget>>

\* the close of the Recorder's reference left out
NeverClosesDumpStdout == FALSE

\* `self._dump_process.stdout.close()` right after the encoder's Popen
ClosesDumpStdout == TRUE

\* _start_ffmpeg_process: Popen(ffmpeg_cmd, stdin=dump.stdout, ...) and then
\* self._dump_process.stdout.close()
FfmpegPopen ==
    /\ pc = "s_ff_popen"
    /\ proc["dump"].handle
    /\ \/ /\ proc' = [proc EXCEPT !["ffmpeg"] = Spawned]
          /\ stdout_closed' = ClosesDumpStdout
          /\ pc' = "s_ff_poll"
          /\ UNCHANGED cleanupLocals
       \/ /\ EnterCleanup("start", "FfmpegSpawn")
          /\ UNCHANGED <<proc, stdout_closed>>
    /\ UNCHANGED <<stop_requested, file, dumpPollAlive, ffPollAlive,
                   start_time, status_thread, startResult, waitLocals,
                   config, outside, budget>>

\* _start_ffmpeg_process: sleep(0.1), poll(), raise if the process has exited
FfmpegPoll ==
    /\ pc = "s_ff_poll"
    /\ proc' = [proc EXCEPT !["ffmpeg"] = Polled(@)]
    /\ ffPollAlive' = (Polled(proc["ffmpeg"]).returncode = None)
    /\ IF PollFailed("ffmpeg")
       THEN EnterCleanup("start", "FfmpegExited")
       ELSE pc' = "s_time" /\ UNCHANGED cleanupLocals
    /\ UNCHANGED <<stop_requested, file, dumpPollAlive, start_time,
                   status_thread, stdout_closed, startResult, waitLocals,
                   config, outside, budget>>

\* start(), lines 59-64: record the start time, start the status thread
\* unless verbose; Thread.start() may raise (no thread can be started)
StartFinish ==
    /\ pc = "s_time"
    /\ start_time' = TRUE
    /\ \/ /\ status_thread' = ~verbose
          /\ startResult' = "ok"
          /\ pc' = "idle"
          /\ UNCHANGED cleanupLocals
       \/ /\ ~verbose
          /\ EnterCleanup("start", "Thread")
          /\ UNCHANGED <<status_thread, startResult>>
    /\ UNCHANGED <<proc, stop_requested, file, dumpPollAlive, ffPollAlive,
                   stdout_closed, waitLocals, config, outside, budget>>

\* ------------------------------------------------- _cleanup_processes()

\* the next iteration of the loop over (ffmpeg, dump); after the last one
\* the caller raises RecordingError (start(): line 68, wait(): line 114)
CleanupAdvance ==
    IF cur = "ffmpeg"
    THEN /\ cur' = "dump"
         /\ pc' = "c_check"
         /\ UNCHANGED <<ctx, pending, startResult, waitOutcome>>
    ELSE /\ pc' = "idle"
         /\ cur' = "none"
         /\ ctx' = "none"
         /\ pending' = "none"
         /\ startResult' = IF ctx = "start" THEN pending ELSE startResult
         /\ waitOutcome' = IF ctx = "wait" THEN pending ELSE waitOutcome

\* an exception raised by kill() or the wait() after it, inside the handler
\* of TimeoutExpired: no clause of the try statement catches it, it leaves
\* _cleanup_processes and the except clause of the caller
CleanupEscape ==
    /\ pc' = "idle"
    /\ cur' = "none"
    /\ ctx' = "none"
    /\ pending' = "none"
    /\ startResult' = IF ctx = "start" THEN "escaped" ELSE startResult
    /\ waitOutcome' = IF ctx = "wait" THEN "escaped" ELSE waitOutcome

\* an operation on a handle made on behalf of wait()
TouchedBy(c) == waitTouched' = (waitTouched \/ c = "wait")

\* lines 223-226 and 232-233: skip a process that is not there or was seen
\* exited, else terminate() it; an error of terminate() is logged
CleanupCheck ==
    /\ pc = "c_check"
    /\ IF NeedsReap(cur)
       THEN /\ TouchedBy(ctx)
            /\ \/ /\ proc' = [proc EXCEPT ![cur] = Signalled(@, "terms")]
                  /\ pc' = "c_wait"
                  /\ UNCHANGED <<cur, ctx, pending, startResult, waitOutcome,
                                 errs>>
               \/ /\ HandleError
                  /\ CleanupAdvance
                  /\ UNCHANGED proc
       ELSE /\ CleanupAdvance
            /\ UNCHANGED <<proc, waitTouched, errs>>
    /\ UNCHANGED <<stop_requested, file, dumpPollAlive, ffPollAlive,
                   start_time, status_thread, stdout_closed, waitCode,
                   ffmpeg_code, message, seenExists, seenSize, sigInWait,
                   config, outside, stops, calls>>

\* line 227: process.wait(timeout=5) returns, or raises TimeoutExpired when
\* the process is still running after 5 seconds
CleanupWait ==
    /\ pc = "c_wait"
    /\ proc' = [proc EXCEPT ![cur] = Polled(@)]
    /\ IF proc[cur].alive
       THEN /\ pc' = "c_kill"
            /\ UNCHANGED <<cur, ctx, pending, startResult, waitOutcome>>
       ELSE CleanupAdvance
    /\ UNCHANGED <<stop_requested, file, dumpPollAlive, ffPollAlive,
                   start_time, status_thread, stdout_closed, waitCode,
                   ffmpeg_code, message, seenExists, seenSize, waitTouched,
                   sigInWait, config, outside, budget>>

\* line 230: process.kill()
CleanupKill ==
    /\ pc = "c_kill"
    /\ \/ /\ proc' = [proc EXCEPT ![cur] = Signalled(@, "kills")]
          /\ pc' = "c_killwait"
          /\ UNCHANGED <<cur, ctx, pending, startResult, waitOutcome, errs>>
       \/ /\ HandleError
          /\ CleanupEscape
          /\ UNCHANGED proc
    /\ UNCHANGED <<stop_requested, file, dumpPollAlive, ffPollAlive,
                   start_time, status_thread, stdout_closed, waitCode,
                   ffmpeg_code, message, seenExists, seenSize, waitTouched,
                   sigInWait, config, outside, stops, calls>>

\* line 231: process.wait() blocks until the process has exited
CleanupKillWait ==
    /\ pc = "c_killwait"
    /\ ~proc[cur].alive
    /\ proc' = [proc EXCEPT ![cur] = Polled(@)]
    /\ CleanupAdvance
    /\ UNCHANGED <<stop_requested, file, dumpPollAlive, ffPollAlive,
                   start_time, status_thread, stdout_closed, waitCode,
                   ffmpeg_code, message, seenExists, seenSize, waitTouched,
                   sigInWait, config, outside, budget>>

\* ----------------------------------------------------------------- wait()

\* `if not self._ffmpeg_process: raise RecordingError("Recording not started")`
WaitPrecondition == proc["ffmpeg"].handle

\* wait(), lines 70-73: the caller calls wait()
WaitCall ==
    /\ pc = "idle"
    /\ calls < MaxCalls
    /\ calls' = calls + 1
    /\ waitCode' = None
    /\ ffmpeg_code' = None
    /\ message' = "none"
    /\ seenExists' = "unchecked"
    /\ seenSize' = "none"
    /\ waitTouched' = FALSE
    /\ sigInWait' = FALSE
    /\ IF WaitPrecondition
       THEN pc' = "w_ffwait" /\ waitOutcome' = "none"
       ELSE pc' = "idle" /\ waitOutcome' = "NotStarted"
    /\ UNCHANGED <<cleanupLocals, proc, stop_requested, file, startLocals,
                   config, outside, stops, errs>>

\* line 77: ffmpeg_code = self._ffmpeg_process.wait() blocks until the
\* encoder has exited
WaitFfmpeg ==
    /\ pc = "w_ffwait"
    /\ ~proc["ffmpeg"].alive
    /\ proc' = [proc EXCEPT !["ffmpeg"] = Polled(@)]
    /\ ffmpeg_code' = proc["ffmpeg"].code
    /\ waitTouched' = TRUE
    /\ pc' = "w_reap"
    /\ UNCHANGED <<cleanupLocals, stop_requested, file, startLocals,
                   waitOutcome, waitCode, message, seenExists, seenSize,
                   sigInWait, config, outside, budget>>

\* the timeout swallowed: wait() goes on without the force-kill
AfterTimeoutNoKill == "w_log"

\* the force-kill left out: wait() goes on to the unconditional wait
AfterTimeoutWaitOnly == "w_killwait"

\* the handler of TimeoutExpired, line 84: what follows the 5 second wait
\* that timed out
AfterTimeout == "w_kill"

\* the position after self._dump_process.kill() returned, line 87
AfterKill == "w_killwait"

\* lines 80-81: terminate the capture process unless it was seen exited
WaitReap ==
    /\ pc = "w_reap"
    /\ IF NeedsReap("dump")
       THEN \/ /\ proc' = [proc EXCEPT !["dump"] = Signalled(@, "terms")]
               /\ pc' = "w_reapwait"
               /\ UNCHANGED <<cleanupLocals, errs>>
            \/ /\ HandleError
               /\ EnterCleanup("wait", "HandleError")
               /\ UNCHANGED proc
       ELSE /\ pc' = "w_log"
            /\ UNCHANGED <<cleanupLocals, proc, errs>>
    /\ UNCHANGED <<stop_requested, file, startLocals, waitLocals, config, outside,
                   stops, calls>>

\* lines 82-84: self._dump_process.wait(timeout=5)
WaitReapWait ==
    /\ pc = "w_reapwait"
    /\ proc' = [proc EXCEPT !["dump"] = Polled(@)]
    /\ pc' = IF proc["dump"].alive THEN AfterTimeout ELSE "w_log"
    /\ UNCHANGED <<cleanupLocals, stop_requested, file, startLocals,
                   waitLocals, config, outside, budget>>

\* line 86: self._dump_process.kill()
WaitKill ==
    /\ pc = "w_kill"
    /\ \/ /\ proc' = [proc EXCEPT !["dump"] = Signalled(@, "kills")]
          /\ pc' = AfterKill
          /\ UNCHANGED <<cleanupLocals, errs>>
       \/ /\ HandleError
          /\ EnterCleanup("wait", "HandleError")
          /\ UNCHANGED proc
    /\ UNCHANGED <<stop_requested, file, startLocals, waitLocals, config, outside,
                   stops, calls>>

\* line 87: self._dump_process.wait()
WaitKillWait ==
    /\ pc = "w_killwait"
    /\ ~proc["dump"].alive
    /\ proc' = [proc EXCEPT !["dump"] = Polled(@)]
    /\ pc' = "w_log"
    /\ UNCHANGED <<cleanupLocals, stop_requested, file, startLocals,
                   waitLocals, config, outside, budget>>

\* the stop reason taken from nothing: always "completed"
StopReasonIgnoresFlag == "completed"

\* lines 98-101: "Recording stopped by user" or "Recording completed"
StopReason == IF stop_requested THEN "stopped by user" ELSE "completed"

\* lines 89-101: log the results and the stop reason
WaitLog ==
    /\ pc = "w_log"
    /\ message' = StopReason
    /\ pc' = "w_exists"
    /\ UNCHANGED <<cleanupLocals, proc, stop_requested, file, startLocals,
                   waitOutcome, waitCode, ffmpeg_code, seenExists, seenSize,
                   waitTouched, sigInWait, config, outside, budget>>

\* the artifact check left out
OutputExistsAlways == TRUE

\* self.output_path.exists()
OutputExists == file # "absent"

\* lines 104-105: raise RecordingError("Output file was not created")
WaitExists ==
    /\ pc = "w_exists"
    /\ seenExists' = IF file = "absent" THEN "no" ELSE "yes"
    /\ IF OutputExists
       THEN pc' = "w_stat" /\ UNCHANGED cleanupLocals
       ELSE EnterCleanup("wait", "OutputMissing")
    /\ UNCHANGED <<proc, stop_requested, file, startLocals, waitOutcome,
                   waitCode, ffmpeg_code, message, seenSize, waitTouched,
                   sigInWait, config, outside, budget>>

\* wait() returning the exit code of the capture process
WaitReturnsDumpCode == proc["dump"].returncode

\* `return ffmpeg_code`
WaitReturnValue == ffmpeg_code

\* lines 107-110: stat() of the output file (FileNotFoundError when the
\* file went away after exists()), log its size, return ffmpeg_code
WaitStat ==
    /\ pc = "w_stat"
    /\ IF file = "absent"
       THEN /\ EnterCleanup("wait", "StatFailed")
            /\ UNCHANGED <<seenSize, waitOutcome, waitCode>>
       ELSE /\ seenSize' = file
            /\ waitOutcome' = "returned"
            /\ waitCode' = WaitReturnValue
            /\ pc' = "idle"
            /\ UNCHANGED cleanupLocals
    /\ UNCHANGED <<proc, stop_requested, file, startLocals, ffmpeg_code,
                   message, seenExists, waitTouched, sigInWait, config, outside,
                   budget>>

\* ------------------------------------------------------ stop_gracefully()

\* stop_gracefully() calling terminate() on the encoder
StopSignalTerminate == "terms"

\* the signal stop_gracefully() sends the encoder: send_signal(SIGINT)
StopSignal == "ints"

\* the flag flipped instead of set
StopFlagToggled == ~stop_requested

\* `self._stop_requested = True`
StopFlagValue == TRUE

\* stop_gracefully(), lines 116-123, as a function of the state
StopGracefully ==
    /\ stop_requested' = StopFlagValue
    /\ proc' = IF proc["ffmpeg"].handle /\ proc["ffmpeg"].returncode = None
               THEN [proc EXCEPT !["ffmpeg"] = Signalled(@, StopSignal)]
               ELSE proc

\* a direct call of stop_gracefully() by the caller of the Recorder
StopCall ==
    /\ pc = "idle"
    /\ stops < MaxStops
    /\ stops' = stops + 1
    /\ StopGracefully
    /\ UNCHANGED <<pc, cleanupLocals, file, startLocals, waitLocals, config, outside,
                   calls, errs>>

\* _signal_handler: SIGINT or SIGTERM is delivered (the handlers are
\* installed by __init__); the handler runs between two steps of the
\* primary thread, also while that thread is blocked
SignalDelivered ==
    /\ stops < MaxStops
    /\ stops' = stops + 1
    /\ StopGracefully
    /\ sigInWait' = (sigInWait \/ (pc = "w_ffwait" /\ proc["ffmpeg"].alive))
    /\ UNCHANGED <<pc, cleanupLocals, file, startLocals, waitOutcome,
                   waitCode, ffmpeg_code, message, seenExists, seenSize,
                   waitTouched, config, outside, calls, errs>>

\* ------------------------------------------------------------ environment

\* a process exits: on its own, at its duration cap, on end of input, or
\* because of a signal it received
ProcExit(p) ==
    /\ proc[p].alive
    /\ \E c \in ExitCodes :
          proc' = [proc EXCEPT ![p].alive = FALSE, ![p].code = c]
    /\ UNCHANGED <<pc, cleanupLocals, stop_requested, file, startLocals,
                   waitLocals, config, outside, budget>>

\* the running encoder creates the output file and writes to it
FfmpegWrite ==
    /\ proc["ffmpeg"].alive
    /\ file' \in {"empty", "data"} \ {file}
    /\ UNCHANGED <<pc, cleanupLocals, proc, stop_requested, startLocals,
                   waitLocals, config, outside, budget>>

\* an external actor deletes the output file
ExternalDelete ==
    /\ file # "absent"
    /\ file' = "absent"
    /\ UNCHANGED <<pc, cleanupLocals, proc, stop_requested, startLocals,
                   waitLocals, config, outside, budget>>

\* is_running, lines 125-131: reads the handle, performs no poll()
IsRunning == proc["ffmpeg"].handle /\ proc["ffmpeg"].returncode = None

\* --------------------------------------------------- _status_reporter()

\* "Report every 30 seconds": elapsed % 30
ReportEvery == 30
\* time.sleep(1)
SleepSeconds == 1
\* the largest elapsed time the status thread samples
MaxElapsed == 31

\* everything the primary thread and the signal handler write, but proc
primary == <<pc, cleanupLocals, stop_requested, file, startLocals,
             waitLocals, config, budget>>

IsRunningPolls == [proc EXCEPT !["ffmpeg"] = Polled(@)]

\* the handles after is_running was read: the property tests the handle and
\* reads its returncode, it calls no method of the handle
IsRunningEffect == proc

\* int(time.time() - self._start_time) of an iteration, given the elapsed
\* of the iteration before: 0 in the first iteration; later the sleep has
\* lasted a second or more, so the whole seconds advanced by one, or by two
\* when the fractions of the iterations have added up to a second
Samples(e) ==
    IF e = None THEN {0} ELSE {e + SleepSeconds, e + SleepSeconds + 1}

\* the thread started by start() runs the guard in front of the loop
ReporterBegin ==
    /\ r_pc = "r_off"
    /\ status_thread
    /\ r_pc' = IF start_time THEN "r_test" ELSE "r_done"
    /\ UNCHANGED <<primary, proc, r_elapsed, r_logged, cli, pipes>>

LoopConditionIgnoresStop == IsRunning

\* while self.is_running and not self._stop_requested
LoopCondition == IsRunning /\ ~stop_requested

\* the loop test; the thread ends when it fails. An iteration is entered
\* while its sample can stay within MaxElapsed
ReporterTest ==
    /\ r_pc = "r_test"
    /\ proc' = IsRunningEffect
    /\ IF LoopCondition
       THEN /\ r_elapsed = None \/ r_elapsed + SleepSeconds <= MaxElapsed
            /\ r_pc' = "r_body"
            /\ UNCHANGED <<r_elapsed, r_logged>>
       ELSE /\ r_pc' = "r_done"
            /\ UNCHANGED <<r_elapsed, r_logged>>
    /\ UNCHANGED <<primary, cli, pipes>>

\* the body of the loop: sample the elapsed time, log a line when it is a
\* positive multiple of 30, sleep
ReporterBody ==
    /\ r_pc = "r_body"
    /\ \E e \in Samples(r_elapsed) :
          /\ e <= MaxElapsed
          /\ r_elapsed' = e
          /\ r_logged' = (e > 0 /\ e % ReportEvery = 0)
    /\ r_pc' = "r_test"
    /\ UNCHANGED <<primary, proc, cli, pipes>>

\* ------------------------------------------------------- cli.py, main()

\* main() returns
SuccessStatus == 0
\* raise typer.Exit(1)
FailureStatus == 1
\* raise typer.Exit(130)
InterruptStatus == 130

\* what the capture binary does when it is run with its stdout captured:
\* "streams" is the healthy binary, it runs on and streams samples and
\* prints nothing about permissions; "denied" prints a permission message
\* and exits; "quits" exits within the three seconds without such a message
CaptureKinds == {"streams", "denied", "quits"}

\* the positions of main() in front of the construction of the Recorder
Preflight == {"find", "version", "permission", "output", "dryrun"}

\* the status the program ends with when typer.Exit(c) is raised inside the
\* try of main(): Exit is an Exception (click's Exit derives from
\* RuntimeError), so the handler "except Exception" catches it, logs
\* "Unexpected error" and raises typer.Exit(1) in its place
RaisedInTry(c) == FailureStatus

\* the program ends with this status
CliExit(status) ==
    /\ cli_pc' = "exited"
    /\ exit_status' = status

\* find_system_audio_dump, find_ffmpeg: look the two binaries up; a missing
\* binary is a BinaryNotFoundError and typer.Exit(1)
CliFindBinaries ==
    /\ cli_pc = "find"
    /\ \/ cli_pc' = "version" /\ UNCHANGED exit_status
       \/ CliExit(RaisedInTry(FailureStatus))
    /\ UNCHANGED <<primary, proc, reporter, pipes, dry_run, capture, executed, constructed>>

\* check_ffmpeg_version: subprocess.run([ffmpeg, "-version"], timeout=10);
\* a failed run, a missing codec or a timeout is typer.Exit(1)
CliCheckVersion ==
    /\ cli_pc = "version"
    /\ executed' = executed \cup {"ffmpeg"}
    /\ \/ cli_pc' = "permission" /\ UNCHANGED exit_status
       \/ CliExit(RaisedInTry(FailureStatus))
    /\ UNCHANGED <<primary, proc, reporter, pipes, dry_run, capture, constructed>>

\* detect_permission_issue(dump_path): subprocess.run([dump], timeout=3)
\* raises TimeoutExpired for a binary that is still running after 3 s and
\* the handler returns True; otherwise True when stdout or stderr holds one
\* of the permission words
DetectPermissionIssue(kind) ==
    IF kind = "streams" THEN TRUE ELSE kind = "denied"

\* if detect_permission_issue(dump_path): log the hint, typer.Exit(1)
CliDetectPermission ==
    /\ cli_pc = "permission"
    /\ executed' = executed \cup {"dump"}
    /\ IF DetectPermissionIssue(capture)
       THEN CliExit(RaisedInTry(FailureStatus))
       ELSE cli_pc' = "output" /\ UNCHANGED exit_status
    /\ UNCHANGED <<primary, proc, reporter, pipes, dry_run, capture, constructed>>

\* ensure_output_dir, build_output_filename, check_output_file: an existing
\* file without --overwrite is typer.Exit(1), a directory that cannot be
\* created is an OSError; then the RecorderConfig
CliPrepareOutput ==
    /\ cli_pc = "output"
    /\ \/ cli_pc' = "dryrun" /\ UNCHANGED exit_status
       \/ CliExit(RaisedInTry(FailureStatus))
    /\ UNCHANGED <<primary, proc, reporter, pipes, dry_run, capture, executed, constructed>>

\* if dry_run: _print_dry_run(config, output_path); return
CliDryRun ==
    /\ cli_pc = "dryrun"
    /\ IF dry_run
       THEN CliExit(SuccessStatus)
       ELSE cli_pc' = "construct" /\ UNCHANGED exit_status
    /\ UNCHANGED <<primary, proc, reporter, pipes, dry_run, capture, executed, constructed>>

\* recorder = Recorder(config, output_path): installs the signal handlers
CliConstruct ==
    /\ cli_pc = "construct"
    /\ constructed' = TRUE
    /\ cli_pc' = "start"
    /\ UNCHANGED <<primary, proc, reporter, pipes, dry_run, capture, executed, exit_status>>

\* SIGINT before the Recorder has installed its handler: KeyboardInterrupt
CliInterrupt ==
    /\ cli_pc \in Preflight \cup {"construct"}
    /\ CliExit(InterruptStatus)
    /\ UNCHANGED <<primary, proc, reporter, pipes, dry_run, capture, executed, constructed>>

\* recorder.start()
CliStart == cli_pc = "start" /\ Start

\* start() has returned, or raised: a RecordingError is typer.Exit(1), any
\* other exception is typer.Exit(1) too
CliStartReturned ==
    /\ cli_pc = "start"
    /\ pc = "idle"
    /\ startResult # "none"
    /\ IF startResult = "ok"
       THEN cli_pc' = "wait" /\ UNCHANGED exit_status
       ELSE CliExit(FailureStatus)
    /\ UNCHANGED <<primary, proc, reporter, pipes, dry_run, capture, executed, constructed>>

\* exit_code = recorder.wait()
CliWait == cli_pc = "wait" /\ calls = 0 /\ WaitCall

\* wait() has returned, or raised: a non-zero exit_code is
\* typer.Exit(exit_code) raised inside the try; main() returns after 0
CliWaitReturned ==
    /\ cli_pc = "wait"
    /\ pc = "idle"
    /\ calls > 0
    /\ IF waitOutcome = "returned"
       THEN IF waitCode # 0
            THEN CliExit(RaisedInTry(waitCode))
            ELSE CliExit(SuccessStatus)
       ELSE CliExit(FailureStatus)
    /\ UNCHANGED <<primary, proc, reporter, pipes, dry_run, capture, executed, constructed>>

\* a signal while main() is inside start() or wait(): the Recorder's handler
CliSignal == cli_pc \in {"start", "wait"} /\ constructed /\ SignalDelivered

\* -------------------------------------------------------- captured pipes

\* the writes a pipe holds before the next write to it blocks
PipeCapacity == 2

\* a running child writes to one of its captured pipes. The Recorder reads
\* such a pipe only after poll() has shown that the child exited (the
\* stderr.read() of the two start steps) and never in wait(), so the pipe
\* only fills up: it takes the write while it has room, and a write to a
\* full pipe blocks the child
ChildWrite ==
    \E f \in Captured :
        /\ proc[Writer(f)].alive
        /\ ~blocked[Writer(f)]
        /\ IF pipe[f] < PipeCapacity
           THEN /\ pipe' = [pipe EXCEPT ![f] = @ + 1]
                /\ UNCHANGED blocked
           ELSE /\ blocked' = [blocked EXCEPT ![Writer(f)] = TRUE]
                /\ UNCHANGED pipe
        /\ UNCHANGED <<primary, proc, reporter, cli>>

\* a child exits; a child that is blocked in a write does nothing on its
\* own, it ends only after a signal was sent to it
PipeProcExit ==
    \E p \in Procs :
        /\ blocked[p] => proc[p].ints + proc[p].terms + proc[p].kills > 0
        /\ ProcExit(p)

\* the steps the primary thread takes inside wait() and the cleanup
PrimaryStep ==
    \/ WaitFfmpeg \/ WaitReap \/ WaitReapWait \/ WaitKill \/ WaitKillWait
    \/ WaitLog \/ WaitExists \/ WaitStat
    \/ CleanupCheck \/ CleanupWait \/ CleanupKill \/ CleanupKillWait

\* a process that was sent SIGKILL exits
KilledExit == \E p \in Procs : proc[p].kills > 0 /\ ProcExit(p)

Next ==
    \/ Start \/ DumpPopen \/ DumpPoll \/ FfmpegPopen \/ FfmpegPoll
    \/ StartFinish
    \/ CleanupCheck \/ CleanupWait \/ CleanupKill \/ CleanupKillWait
    \/ WaitCall \/ WaitFfmpeg \/ WaitReap \/ WaitReapWait \/ WaitKill
    \/ WaitKillWait \/ WaitLog \/ WaitExists \/ WaitStat
    \/ StopCall \/ SignalDelivered
    \/ \E p \in Procs : ProcExit(p)
    \/ FfmpegWrite \/ ExternalDelete

Spec == Init /\ [][Next]_vars

\* the primary thread keeps running, the encoder exits (when interrupted, or
\* at the duration cap given with -t at the latest), a killed process exits
FairSpec ==
    /\ Spec
    /\ WF_vars(PrimaryStep)
    /\ WF_vars(ProcExit("ffmpeg"))
    /\ WF_vars(KilledExit)

\* a session with the status thread: not verbose, the encoder has written
\* the file, wait() is called once
ReporterRunInit ==
    /\ RecorderInit
    /\ ~verbose
    /\ file = "data"
    /\ ReporterInit
    /\ LibraryInit
    /\ PipesInit
    /\ stops = 0
    /\ calls = MaxCalls - 1
    /\ errs = 0

ReporterNext ==
    \/ Start \/ DumpPopen \/ DumpPoll \/ FfmpegPopen \/ FfmpegPoll
    \/ StartFinish
    \/ CleanupCheck \/ CleanupWait \/ CleanupKill \/ CleanupKillWait
    \/ WaitCall \/ WaitFfmpeg \/ WaitReap \/ WaitReapWait \/ WaitKill
    \/ WaitKillWait \/ WaitLog \/ WaitExists \/ WaitStat
    \/ SignalDelivered
    \/ \E p \in Procs : ProcExit(p)
    \/ ReporterBegin \/ ReporterTest \/ ReporterBody

ReporterSpec == ReporterRunInit /\ [][ReporterNext]_vars

\* the steps of the status thread
ReporterStep == ReporterBegin \/ ReporterTest \/ ReporterBody

\* the status thread is scheduled again and again, and its sleep ends
ReporterFairSpec == ReporterSpec /\ WF_vars(ReporterStep)

\* a run of the command line: main() constructs the Recorder itself
CliInit ==
    /\ RecorderInit
    /\ ReporterInit
    /\ cli_pc = "find"
    /\ capture \in CaptureKinds
    /\ dry_run \in BOOLEAN
    /\ executed = {}
    /\ constructed = FALSE
    /\ exit_status = None
    /\ PipesInit
    /\ stops = 0
    /\ calls = 0
    /\ errs = 0

CliNext ==
    \/ CliFindBinaries \/ CliCheckVersion \/ CliDetectPermission
    \/ CliPrepareOutput \/ CliDryRun \/ CliConstruct \/ CliInterrupt
    \/ CliStart \/ DumpPopen \/ DumpPoll \/ FfmpegPopen \/ FfmpegPoll
    \/ StartFinish \/ CliStartReturned
    \/ CleanupCheck \/ CleanupWait \/ CleanupKill \/ CleanupKillWait
    \/ CliWait \/ WaitFfmpeg \/ WaitReap \/ WaitReapWait \/ WaitKill
    \/ WaitKillWait \/ WaitLog \/ WaitExists \/ WaitStat \/ CliWaitReturned
    \/ CliSignal
    \/ \E p \in Procs : ProcExit(p)
    \/ FfmpegWrite \/ ExternalDelete

CliSpec == CliInit /\ [][CliNext]_vars

\* a verbose session whose children write to their captured pipes; the
\* encoder has written the file, wait() is called once
PipeRunInit ==
    /\ RecorderInit
    /\ verbose
    /\ file = "data"
    /\ ReporterInit
    /\ LibraryInit
    /\ PipesInit
    /\ stops = 0
    /\ calls = MaxCalls - 1
    /\ errs = 0

PipeNext ==
    \/ Start \/ DumpPopen \/ DumpPoll \/ FfmpegPopen \/ FfmpegPoll
    \/ StartFinish
    \/ CleanupCheck \/ CleanupWait \/ CleanupKill \/ CleanupKillWait
    \/ WaitCall \/ WaitFfmpeg \/ WaitReap \/ WaitReapWait \/ WaitKill
    \/ WaitKillWait \/ WaitLog \/ WaitExists \/ WaitStat
    \/ SignalDelivered
    \/ ChildWrite \/ PipeProcExit

PipeSpec == PipeRunInit /\ [][PipeNext]_vars

\* ================================================================= claims

WaitPcs == {"w_ffwait", "w_reap", "w_reapwait", "w_kill", "w_killwait",
            "w_log", "w_exists", "w_stat"}

\* the primary thread is inside wait()
InWait == pc \in WaitPcs \/ ctx = "wait"

\* start() raised
StartFailed == startResult \notin {"none", "ok"}

\* C1: as long as start() has not completed successfully, a call of wait()
\* fails with the precondition error "Recording not started" and performs no
\* operation on a process handle (stated here for the runs in which no
\* operation on a handle raised).
C1_WaitNeedsSuccessfulStart ==
    (startResult # "ok" /\ errs = 0) =>
        /\ ~InWait
        /\ waitOutcome \in {"none", "NotStarted"}
        /\ ~waitTouched

\* C2: when start() has raised, neither the capture process nor the encoder
\* process is still running.
C2_FailedStartLeavesNoProcess ==
    StartFailed => \A p \in Procs : ~proc[p].alive

\* C3: the encoder is launched only after the capture process was launched
\* and seen alive at its post-launch poll; when that poll finds the capture
\* process exited, start() fails with the startup error and there is no
\* encoder process.
C3_EncoderOnlyAfterCaptureAlive ==
    /\ proc["ffmpeg"].handle => proc["dump"].handle /\ dumpPollAlive
    /\ (proc["dump"].handle /\ pc # "s_dump_poll" /\ ~dumpPollAlive) =>
          /\ ~proc["ffmpeg"].handle
          /\ ~proc["ffmpeg"].alive
          /\ \/ ctx = "start" /\ pending = "DumpExited"
             \/ startResult = "DumpExited"

\* C3 witness: start() failed because the capture process had exited at its
\* poll, and no encoder was launched.
C3_Witness ==
    /\ startResult = "DumpExited"
    /\ proc["dump"].returncode # None
    /\ ~proc["ffmpeg"].handle

\* C4: in wait() the capture process is terminated only after the encoder
\* has exited, force-killed only in the handler of the timed-out 5 second
\* wait that followed the terminate request, the force-kill is followed by
\* the unconditional wait, the output file is checked only once the capture
\* process is reaped, and when wait() has returned an exit code both
\* processes have exited.
C4_ReapOrder ==
    /\ [](pc \in {"w_log", "w_exists", "w_stat"} =>
            /\ ~proc["ffmpeg"].alive /\ proc["ffmpeg"].returncode # None
            /\ ~proc["dump"].alive /\ proc["dump"].returncode # None)
    /\ [](waitOutcome = "returned" =>
            \A p \in Procs : ~proc[p].alive /\ proc[p].returncode # None)
    /\ [][(InWait /\ proc'["dump"].terms > proc["dump"].terms) =>
            ~proc["ffmpeg"].alive /\ proc["ffmpeg"].returncode # None]_vars
    /\ [][(InWait /\ proc'["dump"].kills > proc["dump"].kills) =>
            /\ pc \in {"w_kill", "c_kill"}
            /\ proc["dump"].terms > 0
            /\ pc' \in {"w_killwait", "c_killwait"}]_vars
    /\ [][(pc = "w_reapwait" /\ pc' = "w_kill") => proc["dump"].alive]_vars
    /\ [][(pc = "w_killwait" /\ pc' # "w_killwait") =>
            ~proc["dump"].alive /\ pc' = "w_log"]_vars

\* C4 witness: wait() returned an exit code after it had to force-kill the
\* capture process.
C4_Witness ==
    /\ waitOutcome = "returned"
    /\ proc["dump"].kills > 0
    /\ errs = 0

\* C5: when the output file is not there at the check of wait(), wait()
\* raises the missing-artifact error and returns no exit code, whatever the
\* exit code of the encoder.
C5_MissingArtifactRaises ==
    seenExists = "no" =>
        /\ waitCode = None
        /\ waitOutcome \in {"none", "OutputMissing"}
        /\ pc = "idle" => waitOutcome = "OutputMissing"

\* C5 witness: the encoder exited with code 0, the file was not there at the
\* check, and wait() raised the missing-artifact error.
C5_Witness ==
    /\ waitOutcome = "OutputMissing"
    /\ ffmpeg_code = 0
    /\ pc = "idle"

\* C6: when wait() has returned an exit code, the output file it reported
\* exists and has non-zero size.
C6_ReturnedMeansNonEmptyFile ==
    waitOutcome = "returned" => seenSize = "data"

\* C7 as stated: if the output file is there when wait() checks for it,
\* wait() returns exactly the exit code of the encoder and raises nothing.
C7_Original ==
    (pc = "idle" /\ seenExists = "yes") =>
        /\ waitOutcome = "returned"
        /\ waitCode = proc["ffmpeg"].code

\* C7 amended: if the output file is there when wait() checks for it and
\* still there when its size is read, wait() returns exactly the exit code
\* of the encoder, zero or not; if it went away in between, wait() raises.
C7_ReturnsEncoderCode ==
    /\ (pc = "idle" /\ seenExists = "yes" /\ seenSize # "none") =>
          /\ waitOutcome = "returned"
          /\ waitCode = proc["ffmpeg"].code
          /\ waitCode \in ExitCodes
    /\ (pc = "idle" /\ seenExists = "yes" /\ seenSize = "none") =>
          waitOutcome = "StatFailed"
    /\ waitOutcome = "returned" =>
          seenExists = "yes" /\ waitCode = proc["ffmpeg"].code

\* C7 witness: wait() returned a non-zero exit code of the encoder.
C7_Witness ==
    /\ waitOutcome = "returned"
    /\ proc["ffmpeg"].code # 0
    /\ waitCode = proc["ffmpeg"].code

\* C8: once stop_gracefully() has interrupted the running encoder, a further
\* stop_gracefully() (by call or by signal) delivers no additional interrupt
\* to the encoder.
C8_SecondStopSendsNothing ==
    [][(stops' > stops /\ proc["ffmpeg"].ints > 0) =>
          proc'["ffmpeg"].ints = proc["ffmpeg"].ints]_vars

\* C9: a graceful stop only sets the stop-requested flag and interrupts an
\* encoder not yet seen exited: it terminates and kills nothing, leaves the
\* capture process alone, runs no cleanup and does not move the primary
\* thread; wait() leaves its blocking wait only when the encoder has exited.
C9_StopNeverForces ==
    /\ [][stops' > stops =>
            /\ stop_requested'
            /\ proc'["dump"] = proc["dump"]
            /\ proc'["ffmpeg"].terms = proc["ffmpeg"].terms
            /\ proc'["ffmpeg"].kills = proc["ffmpeg"].kills
            /\ proc'["ffmpeg"].alive = proc["ffmpeg"].alive
            /\ proc'["ffmpeg"].ints =
                 IF proc["ffmpeg"].alive THEN proc["ffmpeg"].ints + 1
                                         ELSE proc["ffmpeg"].ints
            /\ pc' = pc
            /\ <<cur, ctx, pending>>' = <<cur, ctx, pending>>]_vars
    /\ [][(pc = "w_ffwait" /\ pc' # "w_ffwait") =>
            ~proc["ffmpeg"].alive /\ pc' = "w_reap"]_vars

\* C9 witness: the encoder was interrupted twice, ignores it and runs on;
\* wait() is still blocked and nothing was terminated or killed.
C9_Witness ==
    /\ pc = "w_ffwait"
    /\ stop_requested
    /\ proc["ffmpeg"].alive
    /\ proc["ffmpeg"].ints = MaxStops
    /\ \A p \in Procs : proc[p].terms = 0 /\ proc[p].kills = 0

\* C10 as stated: after a signal that arrived while wait() was blocked on
\* the running encoder, the session is stop-requested, the encoder was
\* interrupted, wait() returns the exit code of the encoder, and the final
\* status message is "stopped by user" (stated here for the runs in which
\* no operation on a handle raised).
C10_Original ==
    (sigInWait /\ errs = 0) =>
        /\ stop_requested
        /\ proc["ffmpeg"].ints > 0
        /\ pc = "idle" =>
              /\ waitOutcome = "returned"
              /\ waitCode = proc["ffmpeg"].code
              /\ message = "stopped by user"

\* C10 amended: after such a signal the session is stop-requested, the
\* encoder was interrupted, the final status message, once logged, is
\* "stopped by user", and wait() returns the exit code of the encoder unless
\* the output file is missing when checked or sized, or reaping the capture
\* process raised; the stop request itself is never turned into an error.
C10_SignalledStop ==
    sigInWait =>
        /\ stop_requested
        /\ proc["ffmpeg"].ints > 0
        /\ message \in {"none", "stopped by user"}
        /\ (pc = "idle" /\ seenSize # "none") =>
              /\ waitOutcome = "returned"
              /\ waitCode = proc["ffmpeg"].code
              /\ message = "stopped by user"
        /\ (pc = "idle" /\ seenSize = "none") =>
              \/ /\ waitOutcome = "OutputMissing"
                 /\ seenExists = "no"
                 /\ message = "stopped by user"
              \/ /\ waitOutcome = "StatFailed"
                 /\ seenExists = "yes"
                 /\ message = "stopped by user"
              \/ /\ waitOutcome \in {"HandleError", "escaped"}
                 /\ errs > 0
                 /\ message = "none"

\* C10 witness: a signal arrived while wait() was blocked on the running
\* encoder, and wait() returned the exit code with "stopped by user".
C10_Witness ==
    /\ sigInWait
    /\ waitOutcome = "returned"
    /\ message = "stopped by user"
    /\ proc["ffmpeg"].ints > 0

\* C11: wait() of a session whose start() succeeded ends (returns or raises)
\* once the encoder has exited; inside wait() the primary thread is blocked
\* only on the exit of a running encoder or on the exit of a process it has
\* force-killed.
C11_WaitTerminates ==
    /\ [](InWait =>
            \/ ENABLED PrimaryStep
            \/ pc = "w_ffwait" /\ proc["ffmpeg"].alive
            \/ /\ pc = "w_killwait"
               /\ proc["dump"].alive /\ proc["dump"].kills > 0
            \/ /\ pc = "c_killwait"
               /\ proc[cur].alive /\ proc[cur].kills > 0)
    /\ (InWait /\ startResult = "ok") ~> ~InWait

\* C11 witness: start() succeeded, stop_gracefully() was called right after
\* it, and the wait() that followed has returned.
C11_Witness ==
    /\ startResult = "ok"
    /\ stop_requested
    /\ proc["ffmpeg"].ints > 0
    /\ waitOutcome = "returned"
    /\ ~InWait

\* C12: is_running is true only while the encoder process is alive.
C12_RunningOnlyWhileAlive ==
    IsRunning => proc["ffmpeg"].alive

\* the session state of the Recorder, from the encoder handle, the encoder
\* process and the stop-requested flag
SessionState ==
    IF ~proc["ffmpeg"].handle THEN "not-started"
    ELSE IF ~proc["ffmpeg"].alive THEN "finished"
    ELSE IF stop_requested THEN "stop-requested"
    ELSE "running"

SessionMoves ==
    {<<"not-started", "running">>, <<"running", "stop-requested">>,
     <<"running", "finished">>, <<"stop-requested", "finished">>}

\* C15: the session state only moves not-started -> running, running ->
\* stop-requested, running or stop-requested -> finished, and the
\* stop-requested flag is set only while the session is running.
C15_SessionStateMoves ==
    /\ [][SessionState' # SessionState =>
            <<SessionState, SessionState'>> \in SessionMoves]_vars
    /\ [][(stop_requested' /\ ~stop_requested) =>
            SessionState = "running"]_vars

\* C16: once set, the stop-requested flag is never cleared, and it changes
\* only in a step of stop_gracefully().
C16_StopRequestedOneWay ==
    /\ [][stop_requested => stop_requested']_vars
    /\ [][stop_requested' # stop_requested => stops' = stops + 1]_vars

\* C16 witness: the flag was set during start() and is still set after
\* start(), a second stop_gracefully(), and a wait() that has ended.
C16_Witness ==
    /\ stop_requested
    /\ stops = MaxStops
    /\ startResult = "ok"
    /\ proc["ffmpeg"].ints < stops
    /\ waitOutcome = "returned"

\* C17 as stated: the Recorder's reference to the capture process's output
\* stream is closed only once the post-launch poll has seen the encoder
\* alive.
C17_Original ==
    stdout_closed => ffPollAlive

\* C17 amended: the reference is closed as soon as the encoder has been
\* spawned, before its post-launch poll and whatever that poll finds; after
\* a successful start() it is closed and the encoder was seen alive.
C17_ClosedOnceSpawned ==
    /\ stdout_closed <=> proc["ffmpeg"].handle
    /\ pc = "s_ff_poll" => stdout_closed /\ ~ffPollAlive
    /\ startResult = "ok" => stdout_closed /\ ffPollAlive

\* C17 witness: start() failed because the encoder was found exited at its
\* poll, and the reference is closed.
C17_Witness ==
    /\ startResult = "FfmpegExited"
    /\ stdout_closed
    /\ ~ffPollAlive

\* C18: in a session whose start() succeeded, an error raised while wait()
\* reaps the capture process does not make wait() raise; wait() raises only
\* for the missing output file.
C18_ReapErrorNotRaised ==
    startResult = "ok" =>
    waitOutcome \in {"none", "NotStarted", "returned", "OutputMissing",
                     "StatFailed"}

\* C19: the Status Reporter changes no shared state: every step of the
\* status thread leaves the two process handles and the processes behind
\* them (no poll, wait, signal, terminate or kill), the stop-requested flag,
\* the start time, the position and the locals of the primary thread, the
\* results of start() and wait() and the output file unchanged, so wait()
\* and the signals sent go on from the same state with or without it
C19_ReporterChangesNothing ==
    [][r_pc' # r_pc \/ r_elapsed' # r_elapsed \/ r_logged' # r_logged
          => UNCHANGED <<primary, proc>>]_vars

\* the status thread has logged a line and is back at the loop test while
\* wait() blocks on the encoder after a signal requested the stop
C19_Witness ==
    /\ r_pc = "r_test"
    /\ r_logged
    /\ pc = "w_ffwait"
    /\ stop_requested
    /\ proc["ffmpeg"].ints > 0

\* C20: an iteration of the Status Reporter logs a line exactly when its
\* elapsed time is a positive multiple of 30 (none at 0, none elsewhere),
\* never samples the same second twice and never passes over a multiple of
\* 30 between two samples, so that every multiple of 30 gets its line
C20_OneLinePerThirtySeconds ==
    [][r_pc = "r_body" /\ r_pc' = "r_test" =>
          /\ r_logged' <=> (r_elapsed' > 0 /\ r_elapsed' % ReportEvery = 0)
          /\ r_elapsed' # r_elapsed
          /\ r_elapsed # None =>
                \A m \in (r_elapsed + 1)..(r_elapsed' - 1) :
                    m % ReportEvery # 0]_vars

\* C13: in --dry-run mode nothing is executed: at no point of the run has
\* main() run the capture binary or the encoder binary or constructed a
\* Recorder
C13_DryRunExecutesNothing == dry_run => executed = {} /\ ~constructed

\* C14: a failed session ends the program with a non-zero status: status 1
\* when start() or wait() raised, the encoder's exit code when wait()
\* returned it, which is status 0 when wait() returned 0
C14_ExitStatus ==
    (cli_pc = "exited" /\ constructed) =>
        /\ exit_status # None
        /\ startResult # "ok" => exit_status = FailureStatus
        /\ (startResult = "ok" /\ waitOutcome # "returned")
              => exit_status = FailureStatus
        /\ (startResult = "ok" /\ waitOutcome = "returned")
              => exit_status = waitCode

\* C21: no stop request is lost: in a started session whose stop-requested
\* flag is set, the running encoder has been sent an interrupt, also when
\* the request came during start() before the encoder was spawned
C21_NoStopRequestLost ==
    (startResult = "ok" /\ stop_requested /\ proc["ffmpeg"].alive)
        => proc["ffmpeg"].ints > 0

\* C22: the final status message of wait() is "stopped by user" only if an
\* interrupt was sent to the encoder while it was running; when the encoder
\* exited on its own before a stop request took effect the message is
\* "completed"
C22_StoppedMeansInterrupted ==
    message = "stopped by user" => proc["ffmpeg"].ints > 0

\* C23: the captured pipes cannot stall the session: there is no state in
\* which wait() is blocked on the exit of the running encoder while a child
\* that no signal was sent to is blocked in a write to a full pipe that
\* nobody reads
C23_NoChildBlockedOnPipe ==
    ~ /\ pc = "w_ffwait"
      /\ proc["ffmpeg"].alive
      /\ \E p \in Procs :
            /\ proc[p].alive
            /\ blocked[p]
            /\ proc[p].ints + proc[p].terms + proc[p].kills = 0

\* C24: the pre-flight rejects the capture binary only for a permission
\* problem: when the permission check ends the program with status 1, the
\* output of the binary told of a permission problem; a healthy binary,
\* which streams on, lets main() go on towards the Recorder
C24_HealthyCaptureAccepted ==
    [][(cli_pc = "permission" /\ cli_pc' = "exited"
           /\ exit_status' = FailureStatus) => capture = "denied"]_vars

\* the loop of the status thread has to end: stop was requested, or the
\* exit of the encoder was observed (its returncode is set)
ReporterMustEnd == stop_requested \/ ~IsRunning

\* C25: the Status Reporter does not outlive the session: once stop has
\* been requested or wait() has observed the encoder's exit, this stays so,
\* the loop test that follows ends the loop (so at most the iteration under
\* way is finished), and with the thread scheduled fairly the thread ends
C25_ReporterEnds ==
    /\ [][(status_thread /\ ReporterMustEnd) => ReporterMustEnd']_vars
    /\ [][(r_pc = "r_test" /\ ReporterMustEnd) => r_pc' # "r_body"]_vars
    /\ (status_thread /\ ReporterMustEnd) ~> (r_pc = "r_done")

\* the thread has ended after iterations of its loop, with the stop
\* requested, the encoder interrupted and wait() returned
C25_Witness ==
    /\ r_pc = "r_done"
    /\ r_elapsed # None
    /\ r_elapsed > 0
    /\ stop_requested
    /\ proc["ffmpeg"].ints > 0
    /\ waitOutcome = "returned"

====
